---- MODULE Spec2Model ----
(***************************************************************************)
(* DBSage: the process-wide connection state (DatabaseStateManager and the *)
(* PostgresManager handles it owns) and the table relevance index          *)
(* (DatabaseEmbedder).                                                     *)
(*                                                                         *)
(* Spec        : the manager's methods as whole calls, one after another.  *)
(* SpecThreads : the same methods statement by statement, interleaved by   *)
(*               several threads that hold the manager.                    *)
(* SpecNew     : concurrent constructions of the manager.                  *)
(* SpecRace    : N threads each making one set_connection call, exactly    *)
(*               one of them with a valid URL.                             *)
(* SpecRank    : add_table / get_similar_tables on a DatabaseEmbedder.     *)
(* SpecDefs    : add_table / get_table_definitions_from_names.             *)
(* SpecExec    : run_sql and the catalog queries on PostgresManager        *)
(*               objects and the tables and close routes, beside           *)
(*               set/close_connection.                                     *)
(* SpecCatalog : the catalog queries on an open session, for every catalog *)
(*               content.                                                  *)
(* SpecFlow    : generate_and_run_sql requests with their                  *)
(*               PostgresAgentInstruments, one after another.              *)
(* SpecRequests: generate_and_run_sql requests in progress at the same     *)
(*               time.                                                     *)
(* SpecLookup  : get_similar_tables followed by                            *)
(*               get_table_definitions_from_names on one DatabaseEmbedder. *)
(***************************************************************************)
EXTENDS Integers, Sequences, FiniteSets, TLC

\* ------------------------------------------------------------------ bounds
NThreads == 2
MaxHandles == 2
MaxInst == 2
MaxTables == 2
MaxQueryLen == 2
MaxTopN == 2
MaxNames == 2
MaxRelated == 2
NReqs == 2

Threads == 1..NThreads
Handles == 1..MaxHandles
InstIds == 1..MaxInst

\* ------------------------------------------------------------------ values
\* Python None for an object reference (a handle or an instance).
NoneRef == 0
\* An attribute that has not been assigned yet (reading it raises AttributeError).
UnsetRef == -1
NoneUrl == "None"
UnsetUrl == "Unset"

\* Database URLs a caller may pass; psycopg2.connect accepts the first two and
\* raises for the others (authentication failure, unreachable server).
URLs == {"pg_a", "pg_b", "bad_auth", "unreachable"}
ValidUrl(u) == u \in {"pg_a", "pg_b"}

VARIABLES
    instance,   \* DatabaseStateManager._instance (NoneRef or an instance id)
    objs,       \* number of DatabaseStateManager objects allocated so far
    lock,       \* holder of DatabaseStateManager._lock (0 = free)
    db,         \* db[i]: attribute db of instance i (a handle, NoneRef, UnsetRef)
    db_url,     \* db_url[i]: attribute db_url of instance i
    conn,       \* conn[h]: "none" (not created), "open" or "closed"
    opened_with,\* opened_with[h]: the URL handle h was opened with
    pc,         \* pc[t]: position of thread t
    self_,      \* self_[t]: the instance thread t got from DatabaseStateManager()
    arg,        \* arg[t]: the db_url argument of thread t's set_connection
    new_db,     \* new_db[t]: local new_db of thread t's set_connection
    inits,      \* number of times line 326 (cls._instance.db = None) has run
    op,         \* the method of the most recent completed call
    ret,        \* how that call ended
    got,        \* the reference it returned, when it was a get_connection
    gotConn,    \* the state of that handle's connection at the moment of the read
    closedSince,\* a close_connection completed and no set_connection succeeded since
    map_name_to_embeddings, \* DatabaseEmbedder: dict name -> embedding
    map_name_to_table_def,  \* DatabaseEmbedder: dict name -> definition text
    query,      \* the query text of the request
    asked,      \* get_similar_tables(query, n) has been called on the index as it is
    embedded,   \* what get_similar_tables_via_embeddings returned in that call
    ranked,     \* what that get_similar_tables call returned
    inserted,   \* the table names in the order of their first add_table call
    last_text,  \* the pairs <<name, text>> of the latest add_table of each name
    readd,      \* the latest add_table call named a stored table, not the newest one
    names_in,   \* the argument of the latest get_table_definitions_from_names
    defs_ret,   \* how that call ended: "-" (not called), "value" or "KeyError"
    defs_text,  \* the text it returned
    inst_db,    \* inst_db[q]: PostgresAgentInstruments.db of request q, a handle or NoneRef
    stage,      \* stage[q]: how far the generate_and_run_sql request q has come
    request,    \* request[q]: what request q was given, did and returned
    results_file,   \* content of run_sql_results.json ("absent": no such file)
    sql_query_file, \* content of sql_query.sql ("absent": no such file)
    sql_in,     \* the statement passed to the most recent run_sql call
    executed,   \* how many times that call sent the statement to the engine
    catalog,    \* the system catalog of the connected database
    call_args,  \* the arguments of the most recent catalog query call
    text_out,   \* the text it returned (get_table_definitions, ..._for_prompt)
    list_out    \* the list it returned (the other catalog queries)

connVars == <<instance, objs, lock, db, db_url, conn, opened_with, inits>>
threadVars == <<pc, self_, arg, new_db>>
histVars == <<op, ret, got, gotConn, closedSince>>
indexVars == <<map_name_to_embeddings, map_name_to_table_def, query, asked, embedded, ranked,
               inserted, last_text, readd, names_in, defs_ret, defs_text>>
\* The record of add_table calls and the latest definitions lookup.
execVars == <<inst_db, stage, request, results_file, sql_query_file, sql_in, executed>>
catVars == <<catalog, call_args, text_out, list_out>>
addedVars == <<inserted, last_text, readd>>
lookupVars == <<names_in, defs_ret, defs_text>>
\* Everything outside the connection state, and the connection state as a whole.
restVars == <<indexVars, execVars, catVars>>
stateVars == <<connVars, threadVars, histVars, execVars, catVars>>
vars == <<instance, objs, lock, db, db_url, conn, opened_with, inits,
          pc, self_, arg, new_db, op, ret, got, gotConn, closedSince,
          map_name_to_embeddings, map_name_to_table_def, query, asked, embedded, ranked,
          inserted, last_text, readd, names_in, defs_ret, defs_text,
          inst_db, stage, request, results_file, sql_query_file, sql_in, executed,
          catalog, call_args, text_out, list_out>>

\* ------------------------------------------------------- PostgresManager
\* The handles whose connection is open.
OpenHandles(c) == {h \in Handles : c[h] = "open"}

\* The PostgresManager object the next PostgresManager() call creates.
NextHandle(c) == CHOOSE h \in Handles : c[h] = "none" /\ \A g \in 1..(h-1) : c[g] # "none"

HandleLeft(c) == \E h \in Handles : c[h] = "none"

\* PostgresManager.connect_with_url: opens conn and cur, or raises.
connect_with_url(h, url, c) ==
    IF ValidUrl(url) THEN [raised |-> FALSE, conn |-> [c EXCEPT ![h] = "open"]]
                     ELSE [raised |-> TRUE, conn |-> c]

\* PostgresManager.__exit__: closes cur and conn (closing twice is harmless).
exit_(h, c) == IF c[h] = "open" THEN [c EXCEPT ![h] = "closed"] ELSE c

\* --------------------------------------------------- DatabaseStateManager
\* set_connection as one whole call on instance i.
set_connection(i, url, d, u, c, ow) ==
    LET h == NextHandle(c)
        r == connect_with_url(h, url, c)
    IN  IF ~r.raised
        THEN [db |-> [d EXCEPT ![i] = h], db_url |-> [u EXCEPT ![i] = url],
              conn |-> r.conn, opened_with |-> [ow EXCEPT ![h] = url], ret |-> "True"]
        ELSE [db |-> [d EXCEPT ![i] = NoneRef], db_url |-> [u EXCEPT ![i] = NoneUrl],
              conn |-> r.conn, opened_with |-> ow, ret |-> "False"]

\* get_connection as one whole call on instance i.
get_connection(i, d) == d[i]

\* close_connection without the `if self.db:` test of line 381: with no session,
\* self.db.__exit__ raises AttributeError.
close_connection_unguarded(i, d, u, c) ==
    IF d[i] \in Handles
    THEN [db |-> [d EXCEPT ![i] = NoneRef], db_url |-> [u EXCEPT ![i] = NoneUrl],
          conn |-> exit_(d[i], c), ret |-> "None"]
    ELSE [db |-> d, db_url |-> u, conn |-> c, ret |-> "AttributeError"]

\* close_connection as one whole call on instance i.
close_connection(i, d, u, c) ==
    IF d[i] = UnsetRef
    THEN [db |-> d, db_url |-> u, conn |-> c, ret |-> "AttributeError"]
    ELSE IF d[i] # NoneRef
    THEN [db |-> [d EXCEPT ![i] = NoneRef], db_url |-> [u EXCEPT ![i] = NoneUrl],
          conn |-> exit_(d[i], c), ret |-> "None"]
    ELSE [db |-> d, db_url |-> u, conn |-> c, ret |-> "None"]

\* ------------------------------------------------------------- the catalog
\* A relation is [schema, name, kind, cols]; a column is [attnum, attname, typ,
\* dropped]; fks is the set of the foreign key constraints <<referencing table,
\* referenced table, constraint name>> between tables of schema public.
UserColumns ==
    {[attnum |-> 1, attname |-> "id", typ |-> "integer", dropped |-> FALSE],
     [attnum |-> 2, attname |-> "name", typ |-> "text", dropped |-> FALSE],
     [attnum |-> 3, attname |-> "........pg.dropped.3........", typ |-> "-", dropped |-> TRUE]}
SystemColumns ==
    {[attnum |-> -1, attname |-> "ctid", typ |-> "tid", dropped |-> FALSE]}

\* The names of schema public, in the order ORDER BY table_name gives them.
PublicNames == <<"customers", "orders">>

\* What a name of schema public may stand for: a table with any of the user
\* columns (none included), or a view over live columns.
RelForms(name) ==
    {[schema |-> "public", name |-> name, kind |-> "table", cols |-> S \cup SystemColumns] :
        S \in SUBSET UserColumns}
    \cup
    {[schema |-> "public", name |-> name, kind |-> "view", cols |-> S] :
        S \in (SUBSET {c \in UserColumns : ~c.dropped}) \ {{}}}

\* A table of another schema that has the name of a table of schema public.
AuditOrders ==
    [schema |-> "audit", name |-> "orders", kind |-> "table",
     cols |-> SystemColumns \cup {c \in UserColumns : c.attname = "id"}]

FKPairs ==
    {<<"orders", "customers", "orders_customer_fkey">>,
     <<"orders", "customers", "orders_payer_fkey">>,
     <<"customers", "orders", "customers_last_order_fkey">>,
     <<"orders", "orders", "orders_parent_fkey">>}

PublicTables(cat) == {r.name : r \in {x \in cat.rels : x.schema = "public" /\ x.kind = "table"}}

\* The catalogs a database may have: each public name absent or in one form,
\* foreign keys only between tables that exist.  The catalogs with foreign keys
\* are those whose tables all have the one column id.
Catalogs ==
    {cat \in [rels : {A \cup B \cup C :
                         A \in {{}} \cup {{f} : f \in RelForms(PublicNames[1])},
                         B \in {{}} \cup {{f} : f \in RelForms(PublicNames[2])},
                         C \in {{}, {AuditOrders}}},
               fks : SUBSET FKPairs] :
        /\ \A fk \in cat.fks : fk[1] \in PublicTables(cat) /\ fk[2] \in PublicTables(cat)
        /\ cat.fks # {} => \A r \in cat.rels : r.kind = "table" => r.cols = AuditOrders.cols}

\* A database with one table, orders(id integer).
DefaultCatalog ==
    [rels |-> {[schema |-> "public", name |-> "orders", kind |-> "table",
                cols |-> SystemColumns \cup {c \in UserColumns : c.attname = "id"}]},
     fks |-> {}]

\* The generate_and_run_sql requests that may be in progress at a time.
Requests == 1..NReqs

\* The record of a request slot without a request: the prompt given, whether
\* the ranking was made and what it returned, whether the query generator was
\* called, whether a statement was sent to the engine, whether a run_sql call
\* of the request succeeded and what it wrote, whether an earlier request of
\* the slot succeeded, how the request ended and what it returned.
NoRequest ==
    [prompt |-> << >>, ranked |-> FALSE, similar |-> << >>, generated |-> FALSE,
     sent |-> FALSE, ran |-> FALSE, own_sql |-> "-", own_results |-> "-",
     before |-> FALSE, status |-> "-",
     response |-> [fields |-> {}, prompt |-> << >>, sql |-> "-", results |-> "-"]]

\* No catalog query has been made.
InitCalls ==
    /\ call_args = << >>
    /\ text_out = ""
    /\ list_out = << >>

\* The database the URLs lead to.
InitDatabase ==
    /\ catalog = DefaultCatalog
    /\ InitCalls

\* ------------------------------------------------------------------- Init
\* PostgresAgentInstruments.__init__ (self.db = None), no request in progress,
\* an agent directory without files, no run_sql call made yet.
InitInstruments ==
    /\ inst_db = [q \in Requests |-> NoneRef]
    /\ stage = [q \in Requests |-> "idle"]
    /\ request = [q \in Requests |-> NoRequest]
    /\ results_file = "absent"
    /\ sql_query_file = "absent"
    /\ sql_in = "-"
    /\ executed = 0

\* DatabaseEmbedder.__init__: both dicts empty; nothing asked yet.
InitEmbedder ==
    /\ map_name_to_embeddings = << >>
    /\ map_name_to_table_def = << >>
    /\ asked = FALSE
    /\ embedded = << >>
    /\ ranked = << >>
    /\ inserted = << >>
    /\ last_text = {}
    /\ readd = FALSE
    /\ names_in = << >>
    /\ defs_ret = "-"
    /\ defs_text = ""

InitIndex ==
    /\ InitEmbedder
    /\ InitInstruments
    /\ query = << >>

\* No DatabaseStateManager has been constructed yet.
InitManager ==
    /\ instance = NoneRef
    /\ objs = 0
    /\ lock = 0
    /\ db = [i \in InstIds |-> UnsetRef]
    /\ db_url = [i \in InstIds |-> UnsetUrl]
    /\ conn = [h \in Handles |-> "none"]
    /\ opened_with = [h \in Handles |-> NoneUrl]
    /\ pc = [t \in Threads |-> "idle"]
    /\ self_ = [t \in Threads |-> NoneRef]
    /\ arg = [t \in Threads |-> NoneUrl]
    /\ new_db = [t \in Threads |-> NoneRef]
    /\ inits = 0
    /\ op = "-"
    /\ ret = "-"
    /\ got = NoneRef
    /\ gotConn = "-"
    /\ closedSince = FALSE

Init == InitIndex /\ InitManager /\ InitDatabase

\* ---------------------------------------------------------- whole calls
\* A call has returned: record it as the most recent call, with the reference g
\* it returned (NoneRef when it returns no reference).
Returned(name, how, g) ==
    /\ op' = name
    /\ ret' = how
    /\ got' = g
    /\ gotConn' = IF g \in Handles THEN conn[g] ELSE "-"

\* DatabaseStateManager(): __new__ run to completion by caller t.
Construct(t) ==
    /\ IF instance = NoneRef
       THEN /\ objs < MaxInst
            /\ objs' = objs + 1
            /\ instance' = objs + 1
            /\ db' = [db EXCEPT ![objs + 1] = NoneRef]
            /\ db_url' = [db_url EXCEPT ![objs + 1] = NoneUrl]
            /\ inits' = inits + 1
            /\ self_' = [self_ EXCEPT ![t] = objs + 1]
       ELSE /\ self_' = [self_ EXCEPT ![t] = instance]
            /\ UNCHANGED <<objs, instance, db, db_url, inits>>
    /\ Returned("new", "instance", NoneRef)
    /\ UNCHANGED <<lock, conn, opened_with, pc, arg, new_db, closedSince>>
    /\ UNCHANGED restVars

\* db_state.set_connection(url) by caller t.
SetConnection(t, url) ==
    /\ self_[t] # NoneRef
    /\ ValidUrl(url) => HandleLeft(conn)
    /\ LET r == set_connection(self_[t], url, db, db_url, conn, opened_with)
       IN  /\ db' = r.db
           /\ db_url' = r.db_url
           /\ conn' = r.conn
           /\ opened_with' = r.opened_with
           /\ Returned("set", r.ret, NoneRef)
           /\ closedSince' = IF r.ret = "True" THEN FALSE ELSE closedSince
    /\ UNCHANGED <<instance, objs, lock, inits, threadVars>>
    /\ UNCHANGED restVars

\* db_state.get_connection() by caller t.
GetConnection(t) ==
    /\ self_[t] # NoneRef
    /\ Returned("get", "value", get_connection(self_[t], db))
    /\ UNCHANGED <<connVars, threadVars, closedSince>>
    /\ UNCHANGED restVars

\* db_state.close_connection() by caller t.
CloseConnection(t) ==
    /\ self_[t] # NoneRef
    /\ LET r == close_connection(self_[t], db, db_url, conn)
       IN  /\ db' = r.db
           /\ db_url' = r.db_url
           /\ conn' = r.conn
           /\ Returned("close", r.ret, NoneRef)
           /\ closedSince' = IF r.ret = "None" THEN TRUE ELSE closedSince
    /\ UNCHANGED <<instance, objs, lock, opened_with, inits, threadVars>>
    /\ UNCHANGED restVars

Next ==
    \/ \E t \in Threads : Construct(t)
    \/ \E t \in Threads, u \in URLs : SetConnection(t, u)
    \/ \E t \in Threads : GetConnection(t)
    \/ \E t \in Threads : CloseConnection(t)

Spec == Init /\ [][Next]_vars

\* ------------------------------------------- statement by statement
\* __new__, line 321: the unlocked test `if cls._instance is None`.
New_Check(t) ==
    /\ pc[t] = "idle"
    /\ pc' = [pc EXCEPT ![t] = IF instance = NoneRef THEN "n_acquire" ELSE "n_return"]
    /\ UNCHANGED <<connVars, self_, arg, new_db, histVars>>
    /\ UNCHANGED restVars

\* __new__, line 322: `with cls._lock` waits for the lock and takes it.
New_Acquire(t) ==
    /\ pc[t] = "n_acquire"
    /\ lock = 0
    /\ lock' = t
    /\ pc' = [pc EXCEPT ![t] = "n_recheck"]
    /\ UNCHANGED <<instance, objs, db, db_url, conn, opened_with, inits,
                   self_, arg, new_db, histVars>>
    /\ UNCHANGED restVars

\* __new__ without the second test of line 323: whoever gets the lock allocates.
New_Recheck_untested(t) ==
    /\ pc[t] = "n_recheck"
    /\ pc' = [pc EXCEPT ![t] = "n_alloc"]
    /\ UNCHANGED <<connVars, self_, arg, new_db, histVars>>
    /\ UNCHANGED restVars

\* __new__, line 323: the second test, under the lock.
New_Recheck(t) ==
    /\ pc[t] = "n_recheck"
    /\ pc' = [pc EXCEPT ![t] = IF instance = NoneRef THEN "n_alloc" ELSE "n_release"]
    /\ UNCHANGED <<connVars, self_, arg, new_db, histVars>>
    /\ UNCHANGED restVars

\* __new__, line 324: the new object is stored in cls._instance, no attribute set yet.
New_Alloc(t) ==
    /\ pc[t] = "n_alloc"
    /\ objs < MaxInst
    /\ objs' = objs + 1
    /\ instance' = objs + 1
    /\ pc' = [pc EXCEPT ![t] = "n_init_url"]
    /\ UNCHANGED <<lock, db, db_url, conn, opened_with, inits, self_, arg, new_db, histVars>>
    /\ UNCHANGED restVars

\* __new__, line 325: cls._instance.db_url = None.
New_InitUrl(t) ==
    /\ pc[t] = "n_init_url"
    /\ db_url' = [db_url EXCEPT ![instance] = NoneUrl]
    /\ pc' = [pc EXCEPT ![t] = "n_init_db"]
    /\ UNCHANGED <<instance, objs, lock, db, conn, opened_with, inits,
                   self_, arg, new_db, histVars>>
    /\ UNCHANGED restVars

\* __new__, line 326: cls._instance.db = None.
New_InitDb(t) ==
    /\ pc[t] = "n_init_db"
    /\ db' = [db EXCEPT ![instance] = NoneRef]
    /\ inits' = inits + 1
    /\ pc' = [pc EXCEPT ![t] = "n_release"]
    /\ UNCHANGED <<instance, objs, lock, db_url, conn, opened_with,
                   self_, arg, new_db, histVars>>
    /\ UNCHANGED restVars

\* __new__: leaving the `with` block releases the lock.
New_Release(t) ==
    /\ pc[t] = "n_release"
    /\ lock' = 0
    /\ pc' = [pc EXCEPT ![t] = "n_return"]
    /\ UNCHANGED <<instance, objs, db, db_url, conn, opened_with, inits,
                   self_, arg, new_db, histVars>>
    /\ UNCHANGED restVars

\* __new__, line 327: return cls._instance.
New_Return(t) ==
    /\ pc[t] = "n_return"
    /\ self_' = [self_ EXCEPT ![t] = instance]
    /\ pc' = [pc EXCEPT ![t] = "idle"]
    /\ Returned("new", "instance", NoneRef)
    /\ UNCHANGED <<connVars, arg, new_db, closedSince>>
    /\ UNCHANGED restVars

\* set_connection, lines 348-349: new_db = PostgresManager(); new_db.connect_with_url(db_url).
Set_Connect(t, url) ==
    /\ pc[t] = "idle"
    /\ self_[t] # NoneRef
    /\ ValidUrl(url) => HandleLeft(conn)
    /\ arg' = [arg EXCEPT ![t] = url]
    /\ LET h == NextHandle(conn)
           r == connect_with_url(h, url, conn)
       IN  IF ~r.raised
           THEN /\ conn' = r.conn
                /\ opened_with' = [opened_with EXCEPT ![h] = url]
                /\ new_db' = [new_db EXCEPT ![t] = h]
                /\ pc' = [pc EXCEPT ![t] = "s_url"]
           ELSE /\ pc' = [pc EXCEPT ![t] = "e_url"]
                /\ UNCHANGED <<conn, opened_with, new_db>>
    /\ UNCHANGED <<instance, objs, lock, db, db_url, inits, self_, histVars>>
    /\ UNCHANGED restVars

\* set_connection, line 350: self.db_url = db_url.
Set_Url(t) ==
    /\ pc[t] = "s_url"
    /\ db_url' = [db_url EXCEPT ![self_[t]] = arg[t]]
    /\ pc' = [pc EXCEPT ![t] = "s_db"]
    /\ UNCHANGED <<instance, objs, lock, db, conn, opened_with, inits,
                   self_, arg, new_db, histVars>>
    /\ UNCHANGED restVars

\* set_connection, lines 351-352: self.db = new_db; return True.
Set_Db(t) ==
    /\ pc[t] = "s_db"
    /\ db' = [db EXCEPT ![self_[t]] = new_db[t]]
    /\ pc' = [pc EXCEPT ![t] = "idle"]
    /\ Returned("set", "True", NoneRef)
    /\ closedSince' = FALSE
    /\ arg' = [arg EXCEPT ![t] = NoneUrl]
    /\ new_db' = [new_db EXCEPT ![t] = NoneRef]
    /\ UNCHANGED <<instance, objs, lock, db_url, conn, opened_with, inits, self_>>
    /\ UNCHANGED restVars

\* set_connection, line 355 (except branch): self.db_url = None.
Set_ExceptUrl(t) ==
    /\ pc[t] = "e_url"
    /\ db_url' = [db_url EXCEPT ![self_[t]] = NoneUrl]
    /\ pc' = [pc EXCEPT ![t] = "e_db"]
    /\ UNCHANGED <<instance, objs, lock, db, conn, opened_with, inits,
                   self_, arg, new_db, histVars>>
    /\ UNCHANGED restVars

\* The except branch without line 356: self.db keeps its value.
Set_ExceptDb_kept(t) ==
    /\ pc[t] = "e_db"
    /\ pc' = [pc EXCEPT ![t] = "idle"]
    /\ Returned("set", "False", NoneRef)
    /\ arg' = [arg EXCEPT ![t] = NoneUrl]
    /\ UNCHANGED <<instance, objs, lock, db, db_url, conn, opened_with, inits,
                   self_, new_db, closedSince>>
    /\ UNCHANGED restVars

\* set_connection, lines 356-357 (except branch): self.db = None; return False.
Set_ExceptDb(t) ==
    /\ pc[t] = "e_db"
    /\ db' = [db EXCEPT ![self_[t]] = NoneRef]
    /\ pc' = [pc EXCEPT ![t] = "idle"]
    /\ Returned("set", "False", NoneRef)
    /\ arg' = [arg EXCEPT ![t] = NoneUrl]
    /\ UNCHANGED <<instance, objs, lock, db_url, conn, opened_with, inits,
                   self_, new_db, closedSince>>
    /\ UNCHANGED restVars

\* get_connection, line 368: return self.db (AttributeError while db is not set).
Get_Read(t) ==
    /\ pc[t] = "idle"
    /\ self_[t] # NoneRef
    /\ IF db[self_[t]] = UnsetRef
       THEN Returned("get", "AttributeError", NoneRef)
       ELSE Returned("get", "value", db[self_[t]])
    /\ UNCHANGED <<connVars, threadVars, closedSince>>
    /\ UNCHANGED restVars

\* close_connection, line 381: `if self.db:`.
Close_Test(t) ==
    /\ pc[t] = "idle"
    /\ self_[t] # NoneRef
    /\ IF db[self_[t]] = UnsetRef
       THEN /\ Returned("close", "AttributeError", NoneRef)
            /\ UNCHANGED <<pc, closedSince>>
       ELSE IF db[self_[t]] = NoneRef
       THEN /\ Returned("close", "None", NoneRef)
            /\ closedSince' = TRUE
            /\ UNCHANGED pc
       ELSE /\ pc' = [pc EXCEPT ![t] = "c_exit"]
            /\ UNCHANGED histVars
    /\ UNCHANGED <<connVars, self_, arg, new_db>>
    /\ UNCHANGED restVars

\* close_connection, line 382: self.db.__exit__(None, None, None); self.db is read
\* again here, and None has no __exit__.
Close_Exit(t) ==
    /\ pc[t] = "c_exit"
    /\ IF db[self_[t]] = NoneRef
       THEN /\ pc' = [pc EXCEPT ![t] = "idle"]
            /\ Returned("close", "AttributeError", NoneRef)
            /\ UNCHANGED conn
       ELSE /\ conn' = exit_(db[self_[t]], conn)
            /\ pc' = [pc EXCEPT ![t] = "c_db"]
            /\ UNCHANGED <<op, ret, got, gotConn>>
    /\ UNCHANGED <<instance, objs, lock, db, db_url, opened_with, inits,
                   self_, arg, new_db, closedSince>>
    /\ UNCHANGED restVars

\* close_connection, line 383: self.db = None.
Close_Db(t) ==
    /\ pc[t] = "c_db"
    /\ db' = [db EXCEPT ![self_[t]] = NoneRef]
    /\ pc' = [pc EXCEPT ![t] = "c_url"]
    /\ UNCHANGED <<instance, objs, lock, db_url, conn, opened_with, inits,
                   self_, arg, new_db, histVars>>
    /\ UNCHANGED restVars

\* close_connection, line 384: self.db_url = None, and the call returns.
Close_Url(t) ==
    /\ pc[t] = "c_url"
    /\ db_url' = [db_url EXCEPT ![self_[t]] = NoneUrl]
    /\ pc' = [pc EXCEPT ![t] = "idle"]
    /\ Returned("close", "None", NoneRef)
    /\ closedSince' = TRUE
    /\ UNCHANGED <<instance, objs, lock, db, conn, opened_with, inits,
                   self_, arg, new_db>>
    /\ UNCHANGED restVars

\* The state once every thread has run `db_state = DatabaseStateManager()`:
\* the one instance exists, with no session, and every thread holds it.
InitHeld ==
    /\ InitIndex
    /\ InitDatabase
    /\ instance = 1
    /\ objs = 1
    /\ lock = 0
    /\ db = [i \in InstIds |-> IF i = 1 THEN NoneRef ELSE UnsetRef]
    /\ db_url = [i \in InstIds |-> IF i = 1 THEN NoneUrl ELSE UnsetUrl]
    /\ conn = [h \in Handles |-> "none"]
    /\ opened_with = [h \in Handles |-> NoneUrl]
    /\ pc = [t \in Threads |-> "idle"]
    /\ self_ = [t \in Threads |-> 1]
    /\ new_db = [t \in Threads |-> NoneRef]
    /\ inits = 1
    /\ op = "-"
    /\ ret = "-"
    /\ got = NoneRef
    /\ gotConn = "-"
    /\ closedSince = FALSE

InitThreads ==
    /\ InitHeld
    /\ arg = [t \in Threads |-> NoneUrl]

\* Threads holding the manager call set_connection, get_connection and
\* close_connection; their statements interleave.
NextThreads ==
    \/ \E t \in Threads, u \in URLs : Set_Connect(t, u)
    \/ \E t \in Threads : Set_Url(t)
    \/ \E t \in Threads : Set_Db(t)
    \/ \E t \in Threads : Set_ExceptUrl(t)
    \/ \E t \in Threads : Set_ExceptDb(t)
    \/ \E t \in Threads : Get_Read(t)
    \/ \E t \in Threads : Close_Test(t)
    \/ \E t \in Threads : Close_Exit(t)
    \/ \E t \in Threads : Close_Db(t)
    \/ \E t \in Threads : Close_Url(t)

SpecThreads == InitThreads /\ [][NextThreads]_vars

\* Threads construct the manager concurrently, and those that have it call
\* set_connection.
NextNew ==
    \/ \E t \in Threads : New_Check(t)
    \/ \E t \in Threads : New_Acquire(t)
    \/ \E t \in Threads : New_Recheck(t)
    \/ \E t \in Threads : New_Alloc(t)
    \/ \E t \in Threads : New_InitUrl(t)
    \/ \E t \in Threads : New_InitDb(t)
    \/ \E t \in Threads : New_Release(t)
    \/ \E t \in Threads : New_Return(t)
    \/ \E t \in Threads, u \in URLs : Set_Connect(t, u)
    \/ \E t \in Threads : Set_Url(t)
    \/ \E t \in Threads : Set_Db(t)
    \/ \E t \in Threads : Set_ExceptUrl(t)
    \/ \E t \in Threads : Set_ExceptDb(t)

SpecNew == Init /\ [][NextNew]_vars

\* N concurrent set_connection calls, one per thread, exactly one with a valid
\* URL, starting from no session.  arg[t] is the URL thread t is about to pass.
InitRace ==
    /\ InitHeld
    /\ arg \in [Threads -> URLs]
    /\ Cardinality({t \in Threads : ValidUrl(arg[t])}) = 1

Race_Connect(t) ==
    /\ arg[t] # NoneUrl
    /\ Set_Connect(t, arg[t])

NextRace ==
    \/ \E t \in Threads : Race_Connect(t)
    \/ \E t \in Threads : Set_Url(t)
    \/ \E t \in Threads : Set_Db(t)
    \/ \E t \in Threads : Set_ExceptUrl(t)
    \/ \E t \in Threads : Set_ExceptDb(t)

SpecRace == InitRace /\ [][NextRace]_vars

\* ------------------------------------------------------- DatabaseEmbedder
\* Strings are sequences of characters; str.lower() maps "A" to "a".
Chars == {"a", "b", "A"}
lower_char(c) == IF c = "A" THEN "a" ELSE c
lower(str) == [k \in 1..Len(str) |-> lower_char(str[k])]

\* Python `a in b` for strings: a is a substring of b.
is_in(a, b) ==
    \E k \in 0..(Len(b) - Len(a)) : SubSeq(b, k + 1, k + Len(a)) = a

\* Table names and definition texts passed to add_table.
TableNames == {<<"a">>, <<"a", "b">>, <<"A", "b">>, <<"b">>}
TableDefs == {"CREATE TABLE t (id integer);", "CREATE TABLE t (id integer, name text);"}

\* Query texts up to MaxQueryLen characters.
Queries == UNION {[1..n -> Chars] : n \in 0..MaxQueryLen}

\* A Python dict is the sequence of its items <<key, value>> in insertion order.
dict_keys(d) == [k \in 1..Len(d) |-> d[k][1]]
dict_has(d, key) == \E k \in 1..Len(d) : d[k][1] = key

\* d[key], for a key that is in d.
dict_get(d, key) == d[CHOOSE k \in 1..Len(d) : d[k][1] = key][2]

\* d[key] = value on a mapping that moves a re-assigned key to the end.
dict_set_appending(d, key, value) ==
    Append(SelectSeq(d, LAMBDA item : item[1] # key), <<key, value>>)

\* d[key] = value: a new key goes last, an existing key keeps its place.
dict_set(d, key, value) ==
    IF dict_has(d, key)
    THEN [k \in 1..Len(d) |-> IF d[k][1] = key THEN <<key, value>> ELSE d[k]]
    ELSE Append(d, <<key, value>>)

\* compute_embeddings: the embedding of a text (line 44: always "").
compute_embeddings(text) == ""

\* get_similar_tables_via_embeddings as written (line 58).
get_similar_tables_via_embeddings(q, n) == << >>

\* What get_similar_tables_via_embeddings may return in a call: the stub's empty
\* list, or, for a ranking that overrides the stub, up to n distinct names of
\* map_name_to_embeddings, in any order.
EmbeddingResults(emb, q, n) ==
    {get_similar_tables_via_embeddings(q, n)} \cup
    {e \in UNION {[1..m -> {emb[k][1] : k \in 1..Len(emb)}] : m \in 1..n} :
        \A x, y \in 1..Len(e) : x # y => e[x] # e[y]}

\* get_similar_table_via_word_match appending table_name.lower().
get_similar_table_via_word_match_lowered(defs, q) ==
    [k \in 1..Len(SelectSeq(dict_keys(defs), LAMBDA name : is_in(lower(name), lower(q)))) |->
        lower(SelectSeq(dict_keys(defs), LAMBDA name : is_in(lower(name), lower(q)))[k])]

\* get_similar_table_via_word_match: the stored names, in dict order, whose
\* lower-cased text is in the lower-cased query.
get_similar_table_via_word_match(defs, q) ==
    SelectSeq(dict_keys(defs), LAMBDA name : is_in(lower(name), lower(q)))

\* The loop of lines 98-101 moving an item that is met again to the end.
RECURSIVE unique_loop_keep_last(_, _)
unique_loop_keep_last(result, unique_results) ==
    IF result = << >> THEN unique_results
    ELSE unique_loop_keep_last(Tail(result),
             Append(SelectSeq(unique_results, LAMBDA item : item # Head(result)),
                    Head(result)))

\* The loop of lines 98-101 putting each new item in front.
RECURSIVE unique_loop_prepend(_, _)
unique_loop_prepend(result, unique_results) ==
    IF result = << >> THEN unique_results
    ELSE unique_loop_prepend(Tail(result),
             IF \E k \in 1..Len(unique_results) : unique_results[k] = Head(result)
             THEN unique_results
             ELSE <<Head(result)>> \o unique_results)

\* Lines 98-101: the loop that appends each item not yet in unique_results.
RECURSIVE unique_loop(_, _)
unique_loop(result, unique_results) ==
    IF result = << >> THEN unique_results
    ELSE unique_loop(Tail(result),
                     IF \E k \in 1..Len(unique_results) : unique_results[k] = Head(result)
                     THEN unique_results
                     ELSE Append(unique_results, Head(result)))

\* get_similar_tables returning `result` instead of `unique_results`.
get_similar_tables_raw(via_embeddings, defs, q) ==
    via_embeddings \o get_similar_table_via_word_match(defs, q)

\* get_similar_tables using the word match only when the embeddings ranking
\* returned nothing.
get_similar_tables_fallback(via_embeddings, defs, q) ==
    IF via_embeddings # << >> THEN via_embeddings
    ELSE unique_loop(get_similar_table_via_word_match(defs, q), << >>)

\* get_similar_tables, given what the embeddings ranking returned.
get_similar_tables(via_embeddings, defs, q) ==
    unique_loop(via_embeddings \o get_similar_table_via_word_match(defs, q), << >>)

\* str.join: the items of seq with sep between neighbours.
RECURSIVE str_join(_, _)
str_join(sep, seq) ==
    IF seq = << >> THEN ""
    ELSE IF Len(seq) = 1 THEN seq[1]
    ELSE seq[1] \o sep \o str_join(sep, Tail(seq))

\* get_table_definitions_from_names joining with a single newline.
get_table_definitions_from_names_newline(defs, table_names) ==
    IF \E k \in 1..Len(table_names) : ~dict_has(defs, table_names[k])
    THEN [raised |-> TRUE, text |-> ""]
    ELSE [raised |-> FALSE,
          text |-> str_join("\n", [k \in 1..Len(table_names) |-> dict_get(defs, table_names[k])])]

\* get_table_definitions_from_names skipping the names that are not stored.
get_table_definitions_from_names_known(defs, table_names) ==
    [raised |-> FALSE,
     text |-> str_join("\n\n",
                  LET known == SelectSeq(table_names, LAMBDA name : dict_has(defs, name))
                  IN  [k \in 1..Len(known) |-> dict_get(defs, known[k])])]

\* get_table_definitions_from_names: the list comprehension of line 115 raises
\* KeyError at the first name that is not stored, before any text is built;
\* otherwise the texts are joined with "\n\n".
get_table_definitions_from_names(defs, table_names) ==
    IF \E k \in 1..Len(table_names) : ~dict_has(defs, table_names[k])
    THEN [raised |-> TRUE, text |-> ""]
    ELSE [raised |-> FALSE,
          text |-> str_join("\n\n", [k \in 1..Len(table_names) |-> dict_get(defs, table_names[k])])]

\* The record of add_table calls: the order of first insertion, the latest text.
Added(name, text) ==
    /\ inserted' = IF \E k \in 1..Len(inserted) : inserted[k] = name
                   THEN inserted ELSE Append(inserted, name)
    /\ last_text' = {p \in last_text : p[1] # name} \cup {<<name, text>>}
    /\ readd' = \E k \in 1..(Len(inserted) - 1) : inserted[k] = name

\* add_table that keeps the text already stored for a name.
AddTable_keep_first(name, text) ==
    /\ dict_has(map_name_to_table_def, name) \/ Len(map_name_to_table_def) < MaxTables
    /\ map_name_to_embeddings' =
           dict_set(map_name_to_embeddings, name, compute_embeddings(text))
    /\ map_name_to_table_def' =
           IF dict_has(map_name_to_table_def, name) THEN map_name_to_table_def
           ELSE dict_set(map_name_to_table_def, name, text)
    /\ Added(name, text)
    /\ asked' = FALSE
    /\ embedded' = << >>
    /\ ranked' = << >>
    /\ names_in' = << >>
    /\ defs_ret' = "-"
    /\ defs_text' = ""
    /\ UNCHANGED <<query, stateVars>>

\* database_embedder.add_table(table_name, text_representation).
AddTable(name, text) ==
    /\ dict_has(map_name_to_table_def, name) \/ Len(map_name_to_table_def) < MaxTables
    /\ map_name_to_embeddings' =
           dict_set(map_name_to_embeddings, name, compute_embeddings(text))
    /\ map_name_to_table_def' = dict_set(map_name_to_table_def, name, text)
    /\ Added(name, text)
    /\ asked' = FALSE
    /\ embedded' = << >>
    /\ ranked' = << >>
    /\ names_in' = << >>
    /\ defs_ret' = "-"
    /\ defs_text' = ""
    /\ UNCHANGED <<query, stateVars>>

\* database_embedder.get_similar_tables(query, n).
Rank(n) ==
    /\ \E e \in EmbeddingResults(map_name_to_embeddings, query, n) :
          /\ embedded' = e
          /\ ranked' = get_similar_tables(e, map_name_to_table_def, query)
    /\ asked' = TRUE
    /\ UNCHANGED <<map_name_to_embeddings, map_name_to_table_def, query, stateVars,
                   addedVars, lookupVars>>

\* database_embedder.get_table_definitions_from_names(table_names), called on
\* an index on which no lookup was made yet (a lookup changes nothing, so a
\* second one on the same index reaches no other state).
DefinitionsFor(table_names) ==
    /\ defs_ret = "-"
    /\ LET r == get_table_definitions_from_names(map_name_to_table_def, table_names)
       IN  /\ defs_ret' = IF r.raised THEN "KeyError" ELSE "value"
           /\ defs_text' = r.text
    /\ names_in' = table_names
    /\ UNCHANGED <<map_name_to_embeddings, map_name_to_table_def, query, asked, embedded,
                   ranked, addedVars, stateVars>>

\* A request with any query text, on an empty index.
InitRank ==
    /\ InitEmbedder
    /\ InitInstruments
    /\ InitDatabase
    /\ query \in Queries
    /\ InitManager

\* The ranking does not read the definition texts: one text is enough here.
NextRank ==
    \/ \E name \in TableNames : AddTable(name, "CREATE TABLE t (id integer);")
    \/ \E n \in 1..MaxTopN : Rank(n)

SpecRank == InitRank /\ [][NextRank]_vars

\* n of get_similar_tables(base_prompt, n=2).
SimilarN == 2

\* services/prompt.py 62-64: get_table_definitions_from_names called with what
\* get_similar_tables returned, on the same index.
LookupRanked ==
    /\ asked
    /\ DefinitionsFor(ranked)

\* The definition a table is added with: one text for the tables with a name
\* of one letter, another for the others.
DefinitionOf(name) ==
    IF Len(name) = 1 THEN "CREATE TABLE t (id integer);"
    ELSE "CREATE TABLE t (id integer, name text);"

\* The ranking is asked for as the service does, with n = 2.
NextLookup ==
    \/ \E name \in TableNames : AddTable(name, DefinitionOf(name))
    \/ Rank(SimilarN)
    \/ LookupRanked

SpecLookup == InitRank /\ [][NextLookup]_vars

\* The name lists a caller may pass to get_table_definitions_from_names.
NameLists == UNION {[1..n -> TableNames] : n \in 0..MaxNames}

NextDefs ==
    \/ \E name \in TableNames, text \in TableDefs : AddTable(name, text)
    \/ \E table_names \in NameLists : DefinitionsFor(table_names)

SpecDefs == Init /\ [][NextDefs]_vars

\* ------------------------------------------- run_sql and catalog queries
\* conn[h] = "new": PostgresManager() was called for h and conn, cur are still
\* None (never connected, or connect_with_url raised).

\* Statements a caller may pass to run_sql; the engine rejects the second one.
SQLs == {"SELECT 1 AS x", "SELEC 1"}
\* The statements the model may pass to the run_sql tool in a request.
ToolSQLs == SQLs \cup {"SELECT 2 AS x"}
Rejected(sql) == sql = "SELEC 1"

\* The exception psycopg2 raises for a statement the engine rejects.
EngineError(sql) == "psycopg2.errors.SyntaxError"

\* json.dumps(list_of_dicts, indent=4) of the rows the statement yields.
ResultJson(sql) ==
    IF sql = "SELECT 2 AS x" THEN "[\n    {\n        \"x\": 2\n    }\n]"
    ELSE "[\n    {\n        \"x\": 1\n    }\n]"

\* self.cur.execute(stmt) on a PostgresManager whose connection is in state c:
\* cur is None (AttributeError), the cursor is closed (psycopg2.InterfaceError,
\* nothing is sent), or the statement goes to the engine once.
cur_execute(c, rejected, sql) ==
    IF c = "new" THEN [raised |-> "AttributeError", sent |-> 0]
    ELSE IF c = "closed" THEN [raised |-> "psycopg2.InterfaceError", sent |-> 0]
    ELSE IF rejected THEN [raised |-> EngineError(sql), sent |-> 1]
    ELSE [raised |-> "no", sent |-> 1]

\* run_sql answering an empty result when the statement fails.
run_sql_swallowing(c, sql) ==
    IF c = "new"
    THEN [ret |-> "HTTPException_400", text |-> "", sent |-> 0]
    ELSE LET e == cur_execute(c, Rejected(sql), sql)
         IN  IF e.raised # "no"
             THEN [ret |-> "value", text |-> "[]", sent |-> e.sent]
             ELSE [ret |-> "value", text |-> ResultJson(sql), sent |-> e.sent]

\* PostgresManager.run_sql: HTTPException 400 "No active database connection"
\* when conn or cur is None; otherwise one cur.execute, whose exception is
\* printed and re-raised (line 89), or the rows as JSON text.
run_sql(c, sql) ==
    IF c = "new"
    THEN [ret |-> "HTTPException_400", text |-> "", sent |-> 0]
    ELSE LET e == cur_execute(c, Rejected(sql), sql)
         IN  IF e.raised # "no"
             THEN [ret |-> e.raised, text |-> "", sent |-> e.sent]
             ELSE [ret |-> "value", text |-> ResultJson(sql), sent |-> e.sent]

\* The catalog queries: each starts with self.cur.execute, with no test of
\* conn or cur before it.  A query without ORDER BY may return its rows in any
\* order, so each operator gives the set of the outcomes [ret, text, list] a
\* call may have.
Perms(S) ==
    {p \in [1..Cardinality(S) -> S] :
        \A i, j \in 1..Cardinality(S) : i # j => p[i] # p[j]}

SeqToSet(seq) == {seq[k] : k \in 1..Len(seq)}

\* The call ends with the exception of cur.execute.
Failed(e) == {[ret |-> e.raised, text |-> "", list |-> << >>]}

\* get_def_stmt without the condition on attisdropped.
def_rows_with_dropped(cat, table_name) ==
    UNION {{<<r.name, c.attnum, c.attname, c.typ>> :
               c \in {x \in r.cols : x.attnum > 0}} :
           r \in {x \in cat.rels : x.name = table_name /\ x.schema = "public"}}

\* The rows <<tablename, attnum, attname, format_type>> of get_def_stmt
\* (db.py 114-126): the columns of relation table_name of schema public with
\* attnum > 0 and attisdropped = false.
def_rows(cat, table_name) ==
    UNION {{<<r.name, c.attnum, c.attname, c.typ>> :
               c \in {x \in r.cols : x.attnum > 0 /\ ~x.dropped}} :
           r \in {x \in cat.rels : x.name = table_name /\ x.schema = "public"}}

\* str.rstrip(chars): the text without the characters of chars at its end.
RECURSIVE rstrip(_, _)
rstrip(text, chars) ==
    IF Len(text) = 0 THEN text
    ELSE IF SubSeq(text, Len(text), Len(text)) \in chars
         THEN rstrip(SubSeq(text, 1, Len(text) - 1), chars)
         ELSE text

\* The loop of db.py 131-132: "{} {},\n".format(row[2], row[3]) for each row.
RECURSIVE column_lines(_)
column_lines(rows) ==
    IF rows = << >> THEN ""
    ELSE Head(rows)[3] \o " " \o Head(rows)[4] \o ",\n" \o column_lines(Tail(rows))

\* create_table_stmt without the rstrip of line 133.
create_table_stmt_unstripped(table_name, rows) ==
    "CREATE TABLE " \o table_name \o " (\n" \o column_lines(rows) \o "\n);"

\* db.py 129-135: the text built from the rows in the order they were fetched.
create_table_stmt(table_name, rows) ==
    rstrip("CREATE TABLE " \o table_name \o " (\n" \o column_lines(rows), {",", "\n"})
        \o "\n);"

get_table_definitions(c, cat, table_name) ==
    LET e == cur_execute(c, FALSE, "-")
    IN  IF e.raised # "no" THEN Failed(e)
        ELSE {[ret |-> "value", text |-> create_table_stmt(table_name, rows), list |-> rows] :
                 rows \in Perms(def_rows(cat, table_name))}

\* pg_tables WHERE schemaname = 'public': the tables, not the views.
get_all_table_names(c, cat) ==
    LET e == cur_execute(c, FALSE, "-")
    IN  IF e.raised # "no" THEN Failed(e)
        ELSE {[ret |-> "value", text |-> "", list |-> names] :
                 names \in Perms(PublicTables(cat))}

\* The names of the columns information_schema.columns shows for a relation.
column_names(cat, name) ==
    UNION {{c.attname : c \in {x \in r.cols : x.attnum > 0 /\ ~x.dropped}} :
           r \in {x \in cat.rels : x.name = name /\ x.schema = "public"}}

\* information_schema.columns WHERE table_schema = 'public' GROUP BY table_name
\* ORDER BY table_name: one row per table or view that has a column, the
\* array_agg of its column names in any order.
get_all_tables_and_columns(c, cat) ==
    LET e == cur_execute(c, FALSE, "-")
        shown == SelectSeq(PublicNames, LAMBDA name : column_names(cat, name) # {})
        orders == {f \in [SeqToSet(shown) -> UNION {Perms(column_names(cat, name)) :
                                                      name \in SeqToSet(shown)}] :
                      \A name \in SeqToSet(shown) : f[name] \in Perms(column_names(cat, name))}
    IN  IF e.raised # "no" THEN Failed(e)
        ELSE {[ret |-> "value", text |-> "",
               list |-> [k \in 1..Len(shown) |->
                           [table_name |-> shown[k], columns |-> f[shown[k]]]]] :
                 f \in orders}

\* The definitions get_table_definitions may give for each table of names.
definition_choices(c, cat, names) ==
    {f \in [SeqToSet(names) -> UNION {{o.text : o \in get_table_definitions(c, cat, name)} :
                                        name \in SeqToSet(names)}] :
        \A name \in SeqToSet(names) :
            f[name] \in {o.text : o \in get_table_definitions(c, cat, name)}}

\* get_all_table_names, then get_table_definitions for each name, joined.
get_table_definitions_for_prompt(c, cat) ==
    UNION {IF t.ret # "value" THEN {t}
           ELSE {[ret |-> "value",
                  text |-> str_join("\n\n", [k \in 1..Len(t.list) |-> f[t.list[k]]]),
                  list |-> t.list] :
                    f \in definition_choices(c, cat, t.list)} :
           t \in get_all_table_names(c, cat)}

\* The same as a dict name -> definition, in the order of get_all_table_names.
get_table_definition_map_for_embeddings(c, cat) ==
    UNION {IF t.ret # "value" THEN {t}
           ELSE {[ret |-> "value", text |-> "",
                  list |-> [k \in 1..Len(t.list) |-> <<t.list[k], f[t.list[k]]>>]] :
                    f \in definition_choices(c, cat, t.list)} :
           t \in get_all_table_names(c, cat)}

\* The rows of pg_constraint with confrelid the table, and with conrelid the
\* table: one row per foreign key constraint.
referencing(cat, table) == {fk \in cat.fks : fk[2] = table}
referenced(cat, table) == {fk \in cat.fks : fk[1] = table}

\* LIMIT n on a query without ORDER BY: any n of the rows, in any order.
limited(rows, n) ==
    UNION {Perms(some) : some \in {x \in SUBSET rows :
              Cardinality(x) = IF n < Cardinality(rows) THEN n ELSE Cardinality(rows)}}

\* The list db.py 243-277 builds for one table of table_list: a.relname of the
\* rows of the first query, then of the rows of the second.
related_of(cat, table, n) ==
    {[k \in 1..Len(a) |-> a[k][1]] \o [k \in 1..Len(b) |-> b[k][2]] :
        a \in limited(referencing(cat, table), n),
        b \in limited(referenced(cat, table), n)}

\* related_tables_dict after the loop over table_list, starting from dict d.
RECURSIVE related_dicts(_, _, _, _)
related_dicts(cat, table_list, n, d) ==
    IF table_list = << >> THEN {d}
    ELSE UNION {related_dicts(cat, Tail(table_list), n, dict_set(d, Head(table_list), found)) :
                   found \in related_of(cat, Head(table_list), n)}

\* db.py 280-282: the lists of the dict, one after another.
RECURSIVE dict_values_joined(_)
dict_values_joined(d) ==
    IF d = << >> THEN << >> ELSE Head(d)[2] \o dict_values_joined(Tail(d))

\* (SELECT oid FROM pg_class WHERE relname = %s) has no condition on the schema:
\* with two relations of that name the statement fails.
ambiguous(cat, table) == Cardinality({r \in cat.rels : r.name = table}) > 1

\* get_related_tables leaving the tables of table_list out of the result.
get_related_tables_without_inputs(c, cat, table_list, n) ==
    LET e == cur_execute(c, FALSE, "-")
    IN  IF table_list = << >> THEN {[ret |-> "value", text |-> "", list |-> << >>]}
        ELSE IF e.raised # "no" THEN Failed(e)
        ELSE IF \E k \in 1..Len(table_list) : ambiguous(cat, table_list[k])
        THEN {[ret |-> "psycopg2.errors.CardinalityViolation", text |-> "", list |-> << >>]}
        ELSE {[ret |-> "value", text |-> "", list |-> names] :
                 names \in UNION {Perms(SeqToSet(dict_values_joined(d)) \ SeqToSet(table_list)) :
                                    d \in related_dicts(cat, table_list, n, << >>)}}

\* get_related_tables: two cur.execute per table of table_list (none for []),
\* then list(set(...)) of everything found, in whatever order the set gives.
get_related_tables(c, cat, table_list, n) ==
    LET e == cur_execute(c, FALSE, "-")
    IN  IF table_list = << >> THEN {[ret |-> "value", text |-> "", list |-> << >>]}
        ELSE IF e.raised # "no" THEN Failed(e)
        ELSE IF \E k \in 1..Len(table_list) : ambiguous(cat, table_list[k])
        THEN {[ret |-> "psycopg2.errors.CardinalityViolation", text |-> "", list |-> << >>]}
        ELSE {[ret |-> "value", text |-> "", list |-> names] :
                 names \in UNION {Perms(SeqToSet(dict_values_joined(d))) :
                                    d \in related_dicts(cat, table_list, n, << >>)}}

\* The PostgresManager objects that exist.
Managers == {h \in Handles : conn[h] # "none"}

\* A call that is not a catalog query: no arguments or output of one to record.
NoOutput ==
    /\ call_args' = << >>
    /\ text_out' = ""
    /\ list_out' = << >>

\* A catalog query call on PostgresManager h with outcome o.
Queried(name, args, o, h) ==
    /\ Returned(name, o.ret, h)
    /\ call_args' = args
    /\ text_out' = o.text
    /\ list_out' = o.list
    /\ UNCHANGED <<connVars, threadVars, closedSince, indexVars, execVars, catalog>>

\* PostgresManager(): a new object, conn and cur None.
NewPostgresManager ==
    /\ HandleLeft(conn)
    /\ conn' = [conn EXCEPT ![NextHandle(conn)] = "new"]
    /\ Returned("PostgresManager", "value", NextHandle(conn))
    /\ UNCHANGED <<instance, objs, lock, db, db_url, opened_with, inits>>
    /\ UNCHANGED <<threadVars, closedSince, indexVars, catalog, execVars>>
    /\ NoOutput

\* h.connect_with_url(url) on an object that is not connected.
ConnectWithUrl(h, url) ==
    /\ conn[h] = "new"
    /\ LET r == connect_with_url(h, url, conn)
       IN  /\ conn' = r.conn
           /\ opened_with' = IF r.raised THEN opened_with ELSE [opened_with EXCEPT ![h] = url]
           /\ Returned("connect_with_url", IF r.raised THEN "HTTPException_500" ELSE "None", h)
    /\ UNCHANGED <<instance, objs, lock, db, db_url, inits>>
    /\ UNCHANGED <<threadVars, closedSince, indexVars, catalog, execVars>>
    /\ NoOutput

\* h.run_sql(sql) by a caller that holds PostgresManager h.
RunSql(h, sql) ==
    /\ h \in Managers
    /\ LET r == run_sql(conn[h], sql)
       IN  /\ Returned("run_sql", r.ret, h)
           /\ executed' = r.sent
    /\ sql_in' = sql
    /\ UNCHANGED <<connVars, threadVars, closedSince, indexVars, catalog>>
    /\ NoOutput
    /\ UNCHANGED <<inst_db, stage, request, results_file, sql_query_file>>

ListTables(h) ==
    /\ h \in Managers
    /\ \E o \in get_all_table_names(conn[h], catalog) :
          Queried("get_all_table_names", << >>, o, h)

DescribeTable(h, table_name) ==
    /\ h \in Managers
    /\ \E o \in get_table_definitions(conn[h], catalog, table_name) :
          Queried("get_table_definitions", <<table_name>>, o, h)

DescribeAllTables(h) ==
    /\ h \in Managers
    /\ \E o \in get_table_definitions_for_prompt(conn[h], catalog) :
          Queried("get_table_definitions_for_prompt", << >>, o, h)

ListColumnsPerTable(h) ==
    /\ h \in Managers
    /\ \E o \in get_all_tables_and_columns(conn[h], catalog) :
          Queried("get_all_tables_and_columns", << >>, o, h)

FindRelatedTables(h, table_list, n) ==
    /\ h \in Managers
    /\ \E o \in get_related_tables(conn[h], catalog, table_list, n) :
          Queried("get_related_tables", <<table_list, n>>, o, h)

\* -------------------------------------- the generate_and_run_sql request
\* stage[q]: "idle" (no request), "enter" (the route found a connection),
\* "context" (inside the with block, before the table definitions are built),
\* "generate" (the prompt is built), "tools" (the model may call run_sql).

\* The manager and the handles but for their state: what a request cannot
\* reach but through the session it was given.
managerVars == <<instance, objs, lock, db, db_url, opened_with, inits>>

\* __exit__ closing the session it was given before dropping it.
Left_closing(q) ==
    /\ inst_db' = [inst_db EXCEPT ![q] = NoneRef]
    /\ stage' = [stage EXCEPT ![q] = "idle"]
    /\ conn' = exit_(inst_db[q], conn)

\* The with block is left: PostgresAgentInstruments.__exit__ sets db to None
\* and does nothing else, the session stays as it is.
Left(q) ==
    /\ inst_db' = [inst_db EXCEPT ![q] = NoneRef]
    /\ stage' = [stage EXCEPT ![q] = "idle"]
    /\ conn' = conn

\* Request q ends with `how`.
Ended(q, how) == request' = [request EXCEPT ![q].status = how]

\* The close route without the test of get_connection().
close_database_connection_untested(i, d, u, c) ==
    [db |-> close_connection(i, d, u, c).db, db_url |-> close_connection(i, d, u, c).db_url,
     conn |-> close_connection(i, d, u, c).conn, ret |-> "200"]

\* routes/database.py 91-99: close_connection() and 200 if get_connection() is
\* not None, else HTTPException 404.
close_database_connection(i, d, u, c) ==
    IF get_connection(i, d) # NoneRef
    THEN [db |-> close_connection(i, d, u, c).db, db_url |-> close_connection(i, d, u, c).db_url,
          conn |-> close_connection(i, d, u, c).conn, ret |-> "200"]
    ELSE [db |-> d, db_url |-> u, conn |-> c, ret |-> "HTTPException_404"]

\* A POST /close request.
CloseRoute ==
    /\ LET r == close_database_connection(instance, db, db_url, conn)
       IN  /\ db' = r.db
           /\ db_url' = r.db_url
           /\ conn' = r.conn
           /\ Returned("close_database_connection", r.ret, NoneRef)
           /\ closedSince' = IF r.ret = "200" THEN TRUE ELSE closedSince
    /\ UNCHANGED <<instance, objs, lock, opened_with, inits, threadVars>>
    /\ UNCHANGED <<indexVars, execVars, catalog>>
    /\ NoOutput

\* routes/prompt.py 42-47: 400 without a connection, else the service is called
\* with the prompt of the request.
PromptRoute(q, prompt) ==
    /\ stage[q] = "idle"
    /\ IF get_connection(instance, db) = NoneRef
       THEN /\ Returned("generate_and_run_sql", "HTTPException_400", NoneRef)
            /\ stage' = stage
            /\ request' = [request EXCEPT ![q] =
                   [NoRequest EXCEPT !.prompt = prompt, !.status = "HTTPException_400",
                                     !.before = request[q].before \/ request[q].status = "200"]]
       ELSE /\ Returned("get", "value", get_connection(instance, db))
            /\ stage' = [stage EXCEPT ![q] = "enter"]
            /\ request' = [request EXCEPT ![q] =
                   [NoRequest EXCEPT !.prompt = prompt, !.status = "running",
                                     !.before = request[q].before \/ request[q].status = "200"]]
    /\ UNCHANGED <<connVars, threadVars, closedSince, indexVars, catalog>>
    /\ NoOutput
    /\ UNCHANGED <<inst_db, results_file, sql_query_file, sql_in, executed>>

\* reset_files leaving the files of the directory where they are.
reset_files_keeping(file) == file

\* reset_files (instruments.py 148-159): every file of the directory is removed.
reset_files(file) == "absent"

\* PostgresAgentInstruments.__enter__: reset_files, then self.db is what
\* get_connection returns; an exception when that is None.
Enter(q) ==
    /\ stage[q] = "enter"
    /\ results_file' = reset_files(results_file)
    /\ sql_query_file' = reset_files(sql_query_file)
    /\ inst_db' = [inst_db EXCEPT ![q] = get_connection(instance, db)]
    /\ IF get_connection(instance, db) = NoneRef
       THEN /\ Returned("__enter__", "Exception_no_connection", NoneRef)
            /\ stage' = [stage EXCEPT ![q] = "idle"]
            /\ Ended(q, "Exception_no_connection")
       ELSE /\ Returned("__enter__", "value", get_connection(instance, db))
            /\ stage' = [stage EXCEPT ![q] = "context"]
            /\ UNCHANGED request
    /\ UNCHANGED <<connVars, threadVars, closedSince, indexVars, catalog, sql_in, executed>>
    /\ NoOutput

\* A string as the sequence of its characters.
chars(str) == [k \in 1..Len(str) |-> SubSeq(str, k, k)]

\* services/prompt.py 50-53: a new DatabaseEmbedder with add_table for every
\* item of the map, in the order of the map.
RECURSIVE add_tables(_, _)
add_tables(items, index) ==
    IF items = << >> THEN index
    ELSE add_tables(Tail(items),
             [emb |-> dict_set(index.emb, chars(Head(items)[1]), compute_embeddings(Head(items)[2])),
              defs |-> dict_set(index.defs, chars(Head(items)[1]), Head(items)[2])])

\* The test of line 59 never failing the request.
no_similar_tables_ignored(similar_tables) == FALSE

\* services/prompt.py 59: `if not similar_tables`.
no_similar_tables(similar_tables) == similar_tables = << >>

\* services/prompt.py 46-64: the definitions are read from the database and
\* ranked against the prompt; no similar table ends the request with 400,
\* otherwise the definitions of the similar tables are looked up.
Context(q) ==
    /\ stage[q] = "context"
    /\ \E o \in get_table_definition_map_for_embeddings(conn[inst_db[q]], catalog) :
          IF o.ret # "value"
          THEN /\ Returned("get_table_definition_map_for_embeddings", o.ret, inst_db[q])
               /\ Ended(q, o.ret)
               /\ Left(q)
          ELSE LET index == add_tables(o.list, [emb |-> << >>, defs |-> << >>])
               IN  \E e \in EmbeddingResults(index.emb, request[q].prompt, SimilarN) :
                      LET similar_tables == get_similar_tables(e, index.defs, request[q].prompt)
                          d == get_table_definitions_from_names(index.defs, similar_tables)
                      IN  IF no_similar_tables(similar_tables)
                          THEN /\ Returned("generate_and_run_sql",
                                           "HTTPException_400_no_tables", inst_db[q])
                               /\ request' = [request EXCEPT
                                      ![q].ranked = TRUE, ![q].similar = similar_tables,
                                      ![q].status = "HTTPException_400_no_tables"]
                               /\ Left(q)
                          ELSE IF d.raised
                          THEN /\ Returned("get_table_definitions_from_names",
                                           "KeyError", inst_db[q])
                               /\ request' = [request EXCEPT
                                      ![q].ranked = TRUE, ![q].similar = similar_tables,
                                      ![q].status = "KeyError"]
                               /\ Left(q)
                          ELSE /\ Returned("get_table_definitions_from_names",
                                           "value", inst_db[q])
                               /\ request' = [request EXCEPT
                                      ![q].ranked = TRUE, ![q].similar = similar_tables]
                               /\ stage' = [stage EXCEPT ![q] = "generate"]
                               /\ UNCHANGED <<inst_db, conn>>
    /\ UNCHANGED <<managerVars, threadVars, closedSince, indexVars, catalog>>
    /\ NoOutput
    /\ UNCHANGED <<results_file, sql_query_file, sql_in, executed>>

\* services/prompt.py 66-84: the prompt with the table definitions is built and
\* llm.prompt, the query generator, is called; it returns SQL text or raises.
Generate(q) ==
    /\ stage[q] = "generate"
    /\ \/ /\ Returned("llm.prompt", "value", inst_db[q])
          /\ request' = [request EXCEPT ![q].generated = TRUE]
          /\ stage' = [stage EXCEPT ![q] = "tools"]
          /\ UNCHANGED <<inst_db, conn>>
       \/ /\ Returned("llm.prompt", "Exception", inst_db[q])
          /\ request' = [request EXCEPT ![q].generated = TRUE, ![q].status = "Exception"]
          /\ Left(q)
    /\ UNCHANGED <<managerVars, threadVars, closedSince, indexVars, catalog>>
    /\ NoOutput
    /\ UNCHANGED <<results_file, sql_query_file, sql_in, executed>>

\* PostgresAgentInstruments.run_sql(sql), the tool the model calls: an
\* exception when self.db is None, else self.db.run_sql(sql), and only after
\* it has returned the results file and then the SQL file are written.  An
\* exception inside the with block ends the request.
InstrRunSql(q, sql) ==
    /\ stage[q] \in {"idle", "tools"}
    /\ sql_in' = sql
    /\ IF inst_db[q] = NoneRef
       THEN /\ Returned("instruments.run_sql", "Exception_no_connection", NoneRef)
            /\ executed' = 0
            /\ UNCHANGED <<inst_db, stage, request, results_file, sql_query_file, conn>>
       ELSE LET r == run_sql(conn[inst_db[q]], sql)
            IN  /\ Returned("instruments.run_sql", r.ret, inst_db[q])
                /\ executed' = r.sent
                /\ IF r.ret = "value"
                   THEN /\ results_file' = r.text
                        /\ sql_query_file' = sql
                        /\ request' = [request EXCEPT
                               ![q].sent = TRUE, ![q].ran = TRUE,
                               ![q].own_sql = sql, ![q].own_results = r.text]
                        /\ UNCHANGED <<inst_db, stage, conn>>
                   ELSE /\ UNCHANGED <<results_file, sql_query_file>>
                        /\ request' = [request EXCEPT
                               ![q].sent = request[q].sent \/ r.sent = 1, ![q].status = r.ret]
                        /\ Left(q)
    /\ UNCHANGED <<managerVars, threadVars, closedSince, indexVars, catalog>>
    /\ NoOutput

\* The fields SqlQueryResponseData declares (responses/prompt.py 8-11), all
\* without a default.
DeclaredFields == {"prompt", "table_context", "sql", "csv_data"}

\* SqlQueryResponseData(prompt=..., results=..., sql=...) of lines 100-104.  The
\* base class is a pydantic model (a ValidationError for the two declared
\* fields that are not given) or a class that keeps what it is given.
SqlQueryResponseData(prompt, results, sql) ==
    LET given == {"prompt", "results", "sql"}
        kept == [raised |-> "no",
                 data |-> [fields |-> given, prompt |-> prompt, sql |-> sql,
                           results |-> results]]
    IN  IF DeclaredFields \subseteq given THEN {kept}
        ELSE {[raised |-> "pydantic.ValidationError", data |-> NoRequest.response], kept}

\* services/prompt.py 94-110: validate_run_sql opens the results file (it raises
\* when there is none), both files are read and the response is built.
Finish(q) ==
    /\ stage[q] = "tools"
    /\ IF results_file = "absent" \/ sql_query_file = "absent"
       THEN /\ Returned("generate_and_run_sql", "FileNotFoundError", inst_db[q])
            /\ Ended(q, "FileNotFoundError")
       ELSE \E r \in SqlQueryResponseData(request[q].prompt, results_file, sql_query_file) :
               IF r.raised # "no"
               THEN /\ Returned("generate_and_run_sql", r.raised, inst_db[q])
                    /\ Ended(q, r.raised)
               ELSE /\ Returned("generate_and_run_sql", "value", inst_db[q])
                    /\ request' = [request EXCEPT ![q].status = "200", ![q].response = r.data]
    /\ Left(q)
    /\ UNCHANGED <<managerVars, threadVars, closedSince, indexVars, catalog>>
    /\ NoOutput
    /\ UNCHANGED <<results_file, sql_query_file, sql_in, executed>>

\* routes/database.py 102-136: the tables and columns of the connected
\* database, or 404 without a connection.
TablesRoute ==
    /\ IF get_connection(instance, db) # NoneRef
       THEN \E o \in get_all_tables_and_columns(conn[get_connection(instance, db)], catalog) :
               /\ Returned("get_tables", o.ret, get_connection(instance, db))
               /\ list_out' = o.list
       ELSE /\ Returned("get_tables", "HTTPException_404", NoneRef)
            /\ list_out' = << >>
    /\ call_args' = << >>
    /\ text_out' = ""
    /\ UNCHANGED <<connVars, threadVars, closedSince, indexVars, execVars, catalog>>

\* The table lists a caller may pass to get_related_tables.
TableLists ==
    {<< >>, <<"orders">>, <<"customers">>, <<"orders", "customers">>, <<"orders", "orders">>}

\* One URL that connects and one that does not.
ExecURLs == {"pg_a", "bad_auth"}

\* The calls are made one after another; which thread makes them is immaterial.
NextExec ==
    \/ \E url \in ExecURLs : SetConnection(1, url)
    \/ CloseConnection(1)
    \/ NewPostgresManager
    \/ \E h \in Handles, url \in ExecURLs : ConnectWithUrl(h, url)
    \/ \E h \in Handles, sql \in SQLs : RunSql(h, sql)
    \/ \E h \in Handles : ListTables(h)
    \/ \E h \in Handles : DescribeTable(h, "orders")
    \/ \E h \in Handles : DescribeAllTables(h)
    \/ \E h \in Handles : ListColumnsPerTable(h)
    \/ \E h \in Handles, table_list \in {<< >>, <<"orders">>} :
          FindRelatedTables(h, table_list, MaxRelated)
    \/ TablesRoute
    \/ CloseRoute

SpecExec == InitThreads /\ [][NextExec]_vars

\* The catalog queries on an open session, over every catalog: the state after
\* PostgresManager() and connect_with_url.
InitCatalog ==
    /\ InitIndex
    /\ instance = NoneRef
    /\ objs = 0
    /\ lock = 0
    /\ db = [i \in InstIds |-> UnsetRef]
    /\ db_url = [i \in InstIds |-> UnsetUrl]
    /\ conn = [h \in Handles |-> IF h = 1 THEN "open" ELSE "none"]
    /\ opened_with = [h \in Handles |-> IF h = 1 THEN "pg_a" ELSE NoneUrl]
    /\ pc = [t \in Threads |-> "idle"]
    /\ self_ = [t \in Threads |-> NoneRef]
    /\ arg = [t \in Threads |-> NoneUrl]
    /\ new_db = [t \in Threads |-> NoneRef]
    /\ inits = 0
    /\ op = "connect_with_url"
    /\ ret = "None"
    /\ got = 1
    /\ gotConn = "new"
    /\ closedSince = FALSE
    /\ catalog \in Catalogs
    /\ InitCalls

NextCatalog ==
    \/ \E h \in Handles : ListTables(h)
    \/ \E h \in Handles, table_name \in SeqToSet(PublicNames) : DescribeTable(h, table_name)
    \/ \E h \in Handles : DescribeAllTables(h)
    \/ \E h \in Handles : ListColumnsPerTable(h)
    \/ \E h \in Handles, table_list \in TableLists, n \in 0..MaxRelated :
          FindRelatedTables(h, table_list, n)

\* The requests of one flow, one after another, on an open session: any
\* prompt, a database with the table orders or with no table at all.
Prompts == {chars("orders"), chars("Ab")}

RequestCatalogs == {DefaultCatalog, [rels |-> {}, fks |-> {}]}

InitFlow ==
    /\ InitIndex
    /\ instance = 1
    /\ objs = 1
    /\ lock = 0
    /\ db = [i \in InstIds |-> IF i = 1 THEN 1 ELSE UnsetRef]
    /\ db_url = [i \in InstIds |-> IF i = 1 THEN "pg_a" ELSE UnsetUrl]
    /\ conn = [h \in Handles |-> IF h = 1 THEN "open" ELSE "none"]
    /\ opened_with = [h \in Handles |-> IF h = 1 THEN "pg_a" ELSE NoneUrl]
    /\ pc = [t \in Threads |-> "idle"]
    /\ self_ = [t \in Threads |-> 1]
    /\ arg = [t \in Threads |-> NoneUrl]
    /\ new_db = [t \in Threads |-> NoneRef]
    /\ inits = 1
    /\ op = "set"
    /\ ret = "True"
    /\ got = NoneRef
    /\ gotConn = "-"
    /\ closedSince = FALSE
    /\ catalog \in RequestCatalogs
    /\ InitCalls

\* A step of request q.
RequestStep(q) ==
    \/ \E prompt \in Prompts : PromptRoute(q, prompt)
    \/ Enter(q)
    \/ Context(q)
    \/ Generate(q)
    \/ \E sql \in ToolSQLs : InstrRunSql(q, sql)
    \/ Finish(q)

NextFlow ==
    \/ RequestStep(1)
    \/ CloseRoute
    \/ \E h \in Handles, sql \in SQLs : RunSql(h, sql)

SpecFlow == InitFlow /\ [][NextFlow]_vars

\* Requests in progress at the same time, each flow serving one request, on
\* the database with the table orders.
InitRequests ==
    /\ InitFlow
    /\ catalog = DefaultCatalog

NextRequests ==
    \E q \in Requests : request[q].status \in {"-", "running"} /\ RequestStep(q)

SpecRequests == InitRequests /\ [][NextRequests]_vars

SpecCatalog == InitCatalog /\ [][NextCatalog]_vars

\* =================================================================== claims
\* The instances that exist.
Instances == 1..objs

\* C1: in every reachable state at most one database handle is open (opened and
\* not yet closed), whatever set_connection and close_connection calls were made.
C1_AtMostOneOpenHandle == Cardinality(OpenHandles(conn)) <= 1

\* C2: a set_connection that succeeds while a session is current closes that
\* session's handle, makes the new handle the one get_connection returns and
\* returns True; and no session stops being current without its handle closed.
C2_ReplacedSessionIsClosed ==
    [][ /\ \A i \in InstIds :
              (db[i] \in Handles /\ db'[i] # db[i]) => conn'[db[i]] = "closed"
        /\ \A t \in Threads, u \in URLs :
              (SetConnection(t, u) /\ ValidUrl(u) /\ db[self_[t]] \in Handles) =>
                  /\ ret' = "True"
                  /\ db'[self_[t]] = NextHandle(conn)
                  /\ get_connection(self_[t], db') = NextHandle(conn)
                  /\ conn'[db[self_[t]]] = "closed" ]_vars

\* C3: right after a set_connection that failed to open a session, the call has
\* returned False, the manager has no session and no handle is open.
C3_FailedSetLeavesNothingOpen ==
    (op = "set" /\ ret = "False") =>
        /\ \A i \in Instances : db[i] = NoneRef
        /\ OpenHandles(conn) = {}

\* Every thread of the race has made its one call and returned.
RaceDone == \A t \in Threads : pc[t] = "idle" /\ arg[t] = NoneUrl

\* C4 (as claimed): once the N concurrent set_connection calls, exactly one of
\* them with a valid URL, have all returned, the session of the valid call is
\* the current one.
C4_ValidSessionIsCurrent ==
    RaceDone => /\ db[1] \in Handles
                /\ conn[db[1]] = "open"
                /\ ValidUrl(opened_with[db[1]])

\* C4 (amended): once they have all returned, exactly one handle has been opened;
\* the manager holds it if the valid call was the last to assign db (the last
\* call to return returned True), and holds no session otherwise.
C4_ValidSessionOrNone ==
    RaceDone => /\ Cardinality({h \in Handles : conn[h] # "none"}) = 1
                /\ IF ret = "True"
                   THEN db[1] \in Handles /\ conn[db[1]] = "open"
                        /\ ValidUrl(opened_with[db[1]])
                   ELSE db[1] = NoneRef

C4_Witness == RaceDone /\ ret = "True" /\ db[1] \in Handles

\* Thread t is inside the body of set_connection or of close_connection.
InSet(t) == pc[t] \in {"s_url", "s_db", "e_url", "e_db"}
InClose(t) == pc[t] \in {"c_exit", "c_db", "c_url"}

\* C5: the bodies of set_connection and close_connection exclude each other, and
\* when no call is in progress every open handle is the current session.
C5_MutualExclusion ==
    /\ \A t1, t2 \in Threads :
          (t1 # t2 /\ InSet(t1)) => ~(InSet(t2) \/ InClose(t2))
    /\ (\A t \in Threads : pc[t] = "idle") =>
          \A h \in OpenHandles(conn) : \E i \in Instances : db[i] = h

\* C6: a reference get_connection returns is absent or a session whose handle is
\* open at the moment of the read.
C6_GetSeesOpenOrAbsent ==
    (op = "get" /\ ret = "value") => (got = NoneRef \/ gotConn = "open")

\* C7: close_connection raises nothing, changes nothing when no session is open,
\* and a second close_connection right after it closes no handle, raises nothing
\* and leaves the state as the first call left it.
C7_CloseIdempotent ==
    [][ \A t \in Threads :
           CloseConnection(t) =>
               LET i == self_[t]
                   again == close_connection(i, db', db_url', conn')
               IN  /\ ret' = "None"
                   /\ db'[i] = NoneRef
                   /\ (db[i] = NoneRef => UNCHANGED connVars)
                   /\ again.ret = "None"
                   /\ again.db = db'
                   /\ again.db_url = db_url'
                   /\ again.conn = conn' ]_vars

C7_Witness ==
    /\ op = "close" /\ ret = "None"
    /\ \E h \in Handles : conn[h] = "closed"
    /\ \A i \in Instances : db[i] = NoneRef

\* C8: once a close_connection has completed and no set_connection has succeeded
\* since, get_connection returns absent.
C8_AbsentAfterClose ==
    (closedSince /\ op = "get" /\ ret = "value") => got = NoneRef

\* C9: all constructions yield one and the same instance, and its db and db_url
\* are initialised to None once only.
C9_Singleton ==
    /\ objs <= 1
    /\ inits <= 1
    /\ \A t \in Threads : self_[t] # NoneRef => (self_[t] = instance /\ instance = 1)

C9_Witness ==
    /\ \E t \in Threads : pc[t] = "n_release" /\ self_[t] = NoneRef
    /\ instance # NoneRef /\ db[instance] \in Handles

\* C10: the sequence get_similar_tables returns contains no name twice.
C10_RankHasNoDuplicates ==
    asked => \A x, y \in 1..Len(ranked) : x # y => ranked[x] # ranked[y]

C10_Witness ==
    /\ asked
    /\ Len(ranked) >= 2
    /\ \E x \in 1..Len(embedded) :
          \E y \in 1..Len(get_similar_table_via_word_match(map_name_to_table_def, query)) :
             embedded[x] = get_similar_table_via_word_match(map_name_to_table_def, query)[y]

\* What get_similar_table_via_word_match returns for the request's query on the
\* index as it is.
WordMatch == get_similar_table_via_word_match(map_name_to_table_def, query)

Occurs(x, s) == \E k \in 1..Len(s) : s[k] = x

\* C11: every name the word match returns is in what get_similar_tables returns,
\* whatever the embeddings ranking returned and whatever n was.
C11_LexicalMatchesAreRanked ==
    asked => \A k \in 1..Len(WordMatch) : Occurs(WordMatch[k], ranked)

C11_Witness ==
    /\ asked
    /\ embedded # << >>
    /\ \E k \in 1..Len(WordMatch) : ~Occurs(WordMatch[k], embedded)

\* The items of s that no earlier item of s equals, in the order of s.
FirstOccurrences(s) ==
    LET first == SelectSeq([k \in 1..Len(s) |-> k],
                           LAMBDA k : \A j \in 1..(k - 1) : s[j] # s[k])
    IN  [k \in 1..Len(first) |-> s[first[k]]]

\* C12: get_similar_tables returns the embeddings result followed by the word
\* match result with every later repetition of a name removed, so each name sits
\* where it first occurs and a name found by both sits at its embeddings position.
C12_RankIsFirstOccurrences ==
    asked => ranked = FirstOccurrences(embedded \o WordMatch)

C12_Witness ==
    /\ asked
    /\ Len(WordMatch) >= 2
    /\ embedded # << >>
    /\ embedded[1] = WordMatch[2]
    /\ ranked[1] = embedded[1]

\* An index holding tables orders and customers, and the query
\* "show me all customers".
ExampleIndex ==
    dict_set(dict_set(<< >>, <<"o", "r", "d", "e", "r", "s">>, "CREATE TABLE orders (id integer);"),
             <<"c", "u", "s", "t", "o", "m", "e", "r", "s">>, "CREATE TABLE customers (id integer);")
ExampleQuery ==
    <<"s", "h", "o", "w", " ", "m", "e", " ", "a", "l", "l", " ",
      "c", "u", "s", "t", "o", "m", "e", "r", "s">>

\* C13: get_similar_tables_via_embeddings returns the empty list for every query
\* and n, and then get_similar_tables returns exactly what the word match
\* returns; orders and customers with "show me all customers" give [customers].
C13_NoEmbeddingIsLexicalOnly ==
    /\ \A q \in Queries, n \in 1..MaxTopN : get_similar_tables_via_embeddings(q, n) = << >>
    /\ (asked /\ embedded = get_similar_tables_via_embeddings(query, MaxTopN))
          => ranked = WordMatch
    /\ get_similar_tables(get_similar_tables_via_embeddings(ExampleQuery, MaxTopN),
                          ExampleIndex, ExampleQuery)
          = << <<"c", "u", "s", "t", "o", "m", "e", "r", "s">> >>

C13_Witness ==
    /\ asked
    /\ embedded = << >>
    /\ Len(ranked) = 2
    /\ ranked = WordMatch

\* The position of x in s.
Pos(x, s) == CHOOSE k \in 1..Len(s) : s[k] = x

KeySet(d) == {d[k][1] : k \in 1..Len(d)}

\* C15: after any add_table calls the index holds one record per distinct name
\* added, its text is the text of the latest add_table of that name, and the two
\* maps have the same key set.
C15_OneRecordPerName ==
    /\ \A x, y \in 1..Len(map_name_to_table_def) :
          x # y => map_name_to_table_def[x][1] # map_name_to_table_def[y][1]
    /\ \A x, y \in 1..Len(map_name_to_embeddings) :
          x # y => map_name_to_embeddings[x][1] # map_name_to_embeddings[y][1]
    /\ KeySet(map_name_to_table_def) = {p[1] : p \in last_text}
    /\ \A p \in last_text : dict_get(map_name_to_table_def, p[1]) = p[2]
    /\ KeySet(map_name_to_embeddings) = KeySet(map_name_to_table_def)

C15_Witness ==
    /\ readd
    /\ Len(map_name_to_table_def) = 2
    /\ map_name_to_table_def[1][2] = "CREATE TABLE t (id integer, name text);"
    /\ map_name_to_table_def[2][2] = "CREATE TABLE t (id integer);"

\* The texts stored for names[1..k], with a blank line between neighbours.
RECURSIVE BlankLineJoined(_, _, _)
BlankLineJoined(d, names, k) ==
    IF k = 0 THEN ""
    ELSE IF k = 1 THEN dict_get(d, names[1])
    ELSE BlankLineJoined(d, names, k - 1) \o "\n\n" \o dict_get(d, names[k])

\* C16: for names that are all stored, get_table_definitions_from_names returns
\* the stored texts in the order of the input, a blank line between them, a text
\* repeated when its name is, and the index is left as it was.
C16_DefinitionsInInputOrder ==
    [][(defs_ret' # "-" /\ \A k \in 1..Len(names_in') :
                              dict_has(map_name_to_table_def, names_in'[k]))
         => /\ defs_ret' = "value"
            /\ defs_text' = BlankLineJoined(map_name_to_table_def, names_in', Len(names_in'))
            /\ UNCHANGED <<map_name_to_embeddings, map_name_to_table_def>>]_vars

C16_Witness ==
    /\ defs_ret = "value"
    /\ Len(map_name_to_table_def) = 2
    /\ names_in = <<map_name_to_table_def[2][1], map_name_to_table_def[1][1]>>
    /\ map_name_to_table_def[1][2] # map_name_to_table_def[2][2]
    /\ defs_text = map_name_to_table_def[2][2] \o "\n\n" \o map_name_to_table_def[1][2]

\* C17: when one name or more is not stored, get_table_definitions_from_names
\* raises KeyError, returns no text, not even that of the names that are stored,
\* and the index is left as it was.
C17_UnknownNameFails ==
    [][(defs_ret' # "-" /\ \E k \in 1..Len(names_in') :
                              ~dict_has(map_name_to_table_def, names_in'[k]))
         => /\ defs_ret' = "KeyError"
            /\ defs_text' = ""
            /\ UNCHANGED <<map_name_to_embeddings, map_name_to_table_def>>]_vars

C17_Witness ==
    /\ defs_ret = "KeyError"
    /\ Len(names_in) = 2
    /\ dict_has(map_name_to_table_def, names_in[1])
    /\ ~dict_has(map_name_to_table_def, names_in[2])

\* The errors that say that there is no database connection: HTTPException 400
\* (run_sql, prompt route), HTTPException 404 (tables route) and the exception
\* of PostgresAgentInstruments.
NoActiveConnection == {"HTTPException_400", "HTTPException_404", "Exception_no_connection"}

RunSqlOps == {"run_sql", "instruments.run_sql"}

\* C18: run_sql called when no session is open (never connected, connect
\* failed, or closed) fails with the no-connection error, the statement is not
\* sent to the engine, and neither the results file nor the SQL file is written.
C18_NoSessionIsNoActiveConnection ==
    [][(op' \in RunSqlOps /\ gotConn' # "open")
         => /\ ret' \in NoActiveConnection
            /\ executed' = 0
            /\ UNCHANGED <<results_file, sql_query_file>>]_vars

CatalogOps ==
    {"get_all_table_names", "get_table_definitions", "get_table_definitions_for_prompt",
     "get_all_tables_and_columns", "get_related_tables"}

\* C19: the catalog queries called on a PostgresManager with no open session,
\* and the tables and prompt requests made when the manager holds no session,
\* fail with the no-connection error; none returns a success result.
C19_SessionOpsFailWithNoActiveConnection ==
    /\ (op \in CatalogOps /\ gotConn # "open") => ret \in NoActiveConnection
    /\ (op \in {"get_tables", "generate_and_run_sql", "__enter__"} /\ got = NoneRef)
          => ret \in NoActiveConnection

\* C20: when the engine rejects the statement passed to run_sql, the statement
\* was sent once, the caller gets the engine's error and no result, and the
\* results file and the SQL file are as they were before the call.
C20_RejectedStatementRunsOnce ==
    [][(op' \in RunSqlOps /\ gotConn' = "open" /\ Rejected(sql_in'))
         => /\ executed' = 1
            /\ ret' = EngineError(sql_in')
            /\ UNCHANGED <<results_file, sql_query_file>>]_vars

C20_Witness ==
    /\ op = "instruments.run_sql"
    /\ gotConn = "open"
    /\ Rejected(sql_in)
    /\ ret = EngineError(sql_in)
    /\ results_file = ResultJson("SELECT 1 AS x")
    /\ sql_query_file = "SELECT 1 AS x"


\* ---------------------------------------------------- the catalog queries
\* get_table_definitions returned a definition for the table it was asked for.
Described == op = "get_table_definitions" /\ ret = "value"

\* The catalog columns of table T of schema public that are not dropped and
\* have a positive ordinal position.
LiveColumns(T) ==
    UNION {{c \in r.cols : c.attnum > 0 /\ ~c.dropped} :
           r \in {x \in catalog.rels : x.schema = "public" /\ x.name = T}}

\* The columns (ci, ti) of the definition, in the order it lists them.
DefinitionColumns == [k \in 1..Len(list_out) |-> <<list_out[k][3], list_out[k][4]>>]

\* C22: for every table T that ListTables returns, the definition DescribeTable(T)
\* gives has exactly one column entry for each catalog column of T in schema
\* public that is not dropped and has positive ordinal position: as many
\* entries as such columns, none missing, no other included.
C22_OneEntryPerLiveColumn ==
    (Described /\ call_args[1] \in PublicTables(catalog)) =>
        /\ Len(DefinitionColumns) = Cardinality(LiveColumns(call_args[1]))
        /\ SeqToSet(DefinitionColumns) = {<<c.attname, c.typ>> : c \in LiveColumns(call_args[1])}
        /\ text_out = create_table_stmt(call_args[1], list_out)

\* A table with a dropped column and two live ones was described.
C22_Witness ==
    /\ Described
    /\ call_args[1] \in PublicTables(catalog)
    /\ \E r \in catalog.rels :
          r.schema = "public" /\ r.name = call_args[1] /\ \E c \in r.cols : c.dropped
    /\ Len(DefinitionColumns) = 2

\* C23: DescribeTable lists the columns of the definition in ascending ordinal
\* position, whatever order the catalog query returns its rows in.
C23_ColumnsInOrdinalOrder ==
    Described =>
        \A i, j \in 1..Len(list_out) : i < j => list_out[i][2] < list_out[j][2]

\* "e1,\ne2,\n...ek": the entries separated by comma-newline, none after the last.
RECURSIVE CommaNewlineSeparated(_)
CommaNewlineSeparated(entries) ==
    IF entries = << >> THEN ""
    ELSE IF Len(entries) = 1 THEN entries[1]
    ELSE entries[1] \o ",\n" \o CommaNewlineSeparated(Tail(entries))

\* "CREATE TABLE N (" newline, the entries "ci ti", newline ");".
Canonical(N, columns) ==
    "CREATE TABLE " \o N \o " (" \o "\n"
        \o CommaNewlineSeparated([k \in 1..Len(columns) |-> columns[k][1] \o " " \o columns[k][2]])
        \o "\n" \o ");"

\* C24 as stated: a definition with name N and columns (c1,t1)..(ck,tk) is the
\* text "CREATE TABLE N (", newline, the "ci ti" separated by comma-newline,
\* newline, ");", for every column list, the empty one included.
C24_CanonicalForEveryColumnList ==
    Described => text_out = Canonical(call_args[1], DefinitionColumns)

\* C24, amended: the definition is that text for every column list that is not
\* empty; with no column it is "CREATE TABLE N (", one newline, ");".
C24_CanonicalForColumnsOneNewlineForNone ==
    Described =>
        text_out = IF DefinitionColumns = << >>
                   THEN "CREATE TABLE " \o call_args[1] \o " (\n);"
                   ELSE Canonical(call_args[1], DefinitionColumns)

\* A table without columns was described.
C24_Witness ==
    /\ Described
    /\ call_args[1] = "orders"
    /\ "orders" \in PublicTables(catalog)
    /\ DefinitionColumns = << >>
    /\ text_out = "CREATE TABLE orders (\n);"

\* C25: for every catalog content the table names ListColumnsPerTable reports
\* are the names ListTables returns: views are left out, a table without
\* columns is included.
C25_ColumnsPerTableNamesAreListTables ==
    (op = "get_all_tables_and_columns" /\ ret = "value") =>
        {list_out[k].table_name : k \in 1..Len(list_out)} = PublicTables(catalog)

\* get_related_tables returned a list.
Related == op = "get_related_tables" /\ ret = "value"

\* The tables with a foreign key referencing t, and the tables t references.
RefsTo(t) == {fk[1] : fk \in {x \in catalog.fks : x[2] = t}}
RefsFrom(t) == {fk[2] : fk \in {x \in catalog.fks : x[1] = t}}

\* The result has no duplicates, every element is related to an input table,
\* and it is made of at most maxPerTable names per input table and direction.
RelatedWithinLimits ==
    LET inputs == SeqToSet(call_args[1])
        n == call_args[2]
        names == SeqToSet(PublicNames)
    IN  /\ \A i, j \in 1..Len(list_out) : i # j => list_out[i] # list_out[j]
        /\ \A e \in SeqToSet(list_out) : \E t \in inputs : e \in RefsTo(t) \cup RefsFrom(t)
        /\ \E to, from \in [inputs -> SUBSET names] :
              /\ \A t \in inputs :
                    /\ to[t] \subseteq RefsTo(t) /\ Cardinality(to[t]) <= n
                    /\ from[t] \subseteq RefsFrom(t) /\ Cardinality(from[t]) <= n
              /\ SeqToSet(list_out) = UNION {to[t] \cup from[t] : t \in inputs}

\* C26 as stated: the result of FindRelatedTables has no duplicates, holds only
\* tables related to an input table, at most maxPerTable per input table and
\* direction, and a self-referencing input table appears in it.
C26_RelatedTablesWithSelfReference ==
    Related =>
        /\ RelatedWithinLimits
        /\ \A t \in SeqToSet(call_args[1]) : t \in RefsTo(t) => t \in SeqToSet(list_out)

\* C26, amended: the same, but a self-referencing input table is sure to appear
\* only when maxPerTable is at least 1 and at least the number of foreign keys
\* referencing the table or the number of foreign keys of the table; with more
\* foreign keys than that the self-reference may be among the rows cut off.
C26_RelatedTablesWithinLimits ==
    Related =>
        /\ RelatedWithinLimits
        /\ \A t \in SeqToSet(call_args[1]) :
              (/\ t \in RefsTo(t)
               /\ call_args[2] >= 1
               /\ \/ Cardinality({fk \in catalog.fks : fk[2] = t}) <= call_args[2]
                  \/ Cardinality({fk \in catalog.fks : fk[1] = t}) <= call_args[2])
              => t \in SeqToSet(list_out)

\* A self-referencing input table with as many foreign keys as the limit is in
\* the result, next to the table it references.
C26_Witness ==
    /\ Related
    /\ call_args = <<(<<"orders">>), 2>>
    /\ Cardinality({fk \in catalog.fks : fk[1] = "orders"}) = 3
    /\ Cardinality({fk \in catalog.fks : fk[2] = "orders"}) = 2
    /\ SeqToSet(list_out) = {"orders", "customers"}

\* --------------------------------------------------------- the close route
\* C27: the close endpoint answers 404 and leaves the state as it is when no
\* session is active; otherwise it closes the session (db and db_url None, the
\* connection of the session closed) and answers 200.  So the second of two
\* close requests in a row answers 404 and changes nothing.
C27_CloseOnceThen404 ==
    [][op' = "close_database_connection" =>
          /\ IF db[instance] = NoneRef
             THEN /\ ret' = "HTTPException_404"
                  /\ UNCHANGED <<connVars, execVars, indexVars, catalog>>
             ELSE /\ ret' = "200"
                  /\ db'[instance] = NoneRef
                  /\ db_url'[instance] = NoneUrl
                  /\ conn'[db[instance]] = "closed"
                  /\ \A h \in Handles \ {db[instance]} : conn'[h] = conn[h]
          /\ op = "close_database_connection" =>
                /\ ret' = "HTTPException_404"
                /\ UNCHANGED <<connVars, execVars, indexVars, catalog>>]_vars

\* A close request found no session after an earlier close, the connection of
\* the closed session still closed.
C27_Witness ==
    /\ op = "close_database_connection"
    /\ ret = "HTTPException_404"
    /\ closedSince
    /\ \E h \in Handles : conn[h] = "closed"

\* ------------------------------------------- the generate_and_run_sql request
\* C21: a successful generateAndRunSql(promptText) returns a response with the
\* four fields prompt, tableContext, sql and result, prompt being the prompt
\* given, sql the statement that was executed and result its rows.
C21_SuccessCarriesFourFields ==
    \A q \in Requests :
        request[q].status = "200" =>
            /\ {"prompt", "table_context", "sql", "results"} \subseteq request[q].response.fields
            /\ request[q].response.prompt = request[q].prompt
            /\ request[q].response.sql = request[q].own_sql
            /\ request[q].response.results = request[q].own_results

\* C28: when Rank returns no table for the prompt, the request fails with the
\* 400 error, and in that request the query generator is not called, no
\* statement is executed and no success response is produced.
C28_NoSimilarTableIs400 ==
    \A q \in Requests :
        (request[q].ranked /\ request[q].similar = << >>) =>
            /\ request[q].status = "HTTPException_400_no_tables"
            /\ stage[q] = "idle"
            /\ ~request[q].generated
            /\ ~request[q].sent
            /\ ~request[q].ran
            /\ request[q].response.fields = {}

\* The database has the table orders, the prompt names no table, and the
\* request has ended with the 400.
C28_Witness ==
    /\ catalog = DefaultCatalog
    /\ request[1].prompt = chars("Ab")
    /\ request[1].ranked
    /\ request[1].similar = << >>
    /\ request[1].status = "HTTPException_400_no_tables"
    /\ op = "generate_and_run_sql"
    /\ ret = "HTTPException_400_no_tables"

\* C29: requests of one flow, one after another: a request returns a success
\* response only if a run_sql call of that same request completed, and then
\* with what that call staged; a request in which no statement was run or the
\* run failed ends in an error, whatever an earlier request staged.
C29_SuccessOnlyAfterOwnRun ==
    /\ request[1].status = "200" =>
          /\ request[1].ran
          /\ request[1].response.sql = request[1].own_sql
          /\ request[1].response.results = request[1].own_results
    /\ (request[1].status \notin {"-", "running"} /\ ~request[1].ran) =>
          /\ request[1].status # "200"
          /\ request[1].response.fields = {}

\* An earlier request succeeded; this one ran no statement and found no file.
C29_Witness ==
    /\ request[1].before
    /\ request[1].generated
    /\ ~request[1].ran
    /\ request[1].status = "FileNotFoundError"
    /\ op = "generate_and_run_sql"

\* C30: with two requests in progress at the same time, the sql and results a
\* request returns are those its own run_sql call wrote, and as long as the
\* request is in progress the staged files are the ones it wrote: no other
\* request overwrites or deletes them.
C30_RequestsKeepTheirOwnFiles ==
    \A q \in Requests :
        /\ request[q].status = "200" =>
              /\ request[q].response.sql = request[q].own_sql
              /\ request[q].response.results = request[q].own_results
        /\ (stage[q] = "tools" /\ request[q].ran) =>
              /\ sql_query_file = request[q].own_sql
              /\ results_file = request[q].own_results

\* ------------------------------------------- the definitions of the ranking
\* C33: every name get_similar_tables returns is a key of the index it was
\* computed on, so get_table_definitions_from_names called with that result on
\* the same index, no add_table in between, does not raise KeyError and returns
\* the stored definition of each ranked name, one per name, in ranking order.
C33_RankedNamesAreKeys ==
    /\ asked => \A k \in 1..Len(ranked) : ranked[k] \in KeySet(map_name_to_table_def)
    /\ (asked /\ defs_ret # "-" /\ names_in = ranked) =>
          /\ defs_ret = "value"
          /\ defs_text = BlankLineJoined(map_name_to_table_def, ranked, Len(ranked))

\* The ranking holds two names, one of them with an upper-case letter found in
\* the query by the word match, and their two definitions were returned.
C33_Witness ==
    /\ asked
    /\ defs_ret = "value"
    /\ names_in = ranked
    /\ Len(ranked) = 2
    /\ Occurs(<<"A", "b">>, WordMatch)
    /\ dict_get(map_name_to_table_def, ranked[1]) # dict_get(map_name_to_table_def, ranked[2])
    /\ defs_text = dict_get(map_name_to_table_def, ranked[1]) \o "\n\n"
                       \o dict_get(map_name_to_table_def, ranked[2])

\* C32: in every state another caller can observe, under any interleaving of
\* set_connection and close_connection, the stored URL and the stored session of
\* the manager are consistent: both absent, or both present with the URL being
\* the one the session was opened with.
C32_UrlAndSessionConsistent ==
    \A i \in Instances :
        \/ db[i] \in {NoneRef, UnsetRef} /\ db_url[i] \in {NoneUrl, UnsetUrl}
        \/ db[i] \in Handles /\ db_url[i] = opened_with[db[i]]

\* The same between calls only: no set_connection or close_connection is under way.
C32_ConsistentBetweenCalls ==
    (\A t \in Threads : pc[t] = "idle") => C32_UrlAndSessionConsistent

\* The calls a generate_and_run_sql request makes, as they are recorded in op.
RequestOps ==
    {"get", "generate_and_run_sql", "__enter__", "get_table_definition_map_for_embeddings",
     "get_table_definitions_from_names", "llm.prompt", "instruments.run_sql"}

\* C31: no step of a generate_and_run_sql request, ending well or with an
\* error, changes the connection state: the manager, its session and its URL
\* are what they were, the handle is as open as it was, also on leaving the
\* with block; leaving it drops the reference of the instruments object only,
\* and run_sql through that object outside the block raises and sends nothing.
C31_RequestLeavesConnectionState ==
    [][op' \in RequestOps =>
          /\ UNCHANGED <<instance, db, db_url, conn, opened_with>>
          /\ (stage[1] # "idle" /\ stage'[1] = "idle") => inst_db'[1] = NoneRef
          /\ (stage[1] = "idle" /\ op' = "instruments.run_sql") =>
                /\ ret' = "Exception_no_connection"
                /\ executed' = 0]_vars

C31_Witness ==
    /\ request[1].status = "200"
    /\ stage[1] = "idle"
    /\ op = "instruments.run_sql"
    /\ ret = "Exception_no_connection"
    /\ inst_db[1] = NoneRef
    /\ db[instance] = 1
    /\ db_url[instance] = "pg_a"
    /\ conn[1] = "open"

====
